---- MODULE Spec2Model ----
(***************************************************************************)
(* Capture SDK client (TypeScript): the Capture class and its helpers.     *)
(*                                                                         *)
(* One client, one workflow call in flight at a time.  Every `await` of a  *)
(* workflow is a step boundary: the caller (CallerMutate) and the remote   *)
(* services (the *Response actions) act between the steps.                 *)
(*                                                                         *)
(* Representation of JavaScript values:                                    *)
(*   optional value      <<>> (undefined) or <<v>>                         *)
(*   string              sequence of tokens; '' is <<>>                    *)
(*   filename            sequence of its dot-delimited parts               *)
(*   path                sequence of its segments, each a filename         *)
(*   bytes               sequence of 0/1                                   *)
(*   number              [nan, x2]: x2 is twice the value (so 1.5 is 3)    *)
(*   SHA-256 digest      [sha256of |-> preimage bytes] (collision free)    *)
(***************************************************************************)
EXTENDS Integers, Sequences, FiniteSets, TLC

\* ------------------------------------------------------------------ bounds

MaxFileLen == 1
MaxCommits == 2
MaxHeadlineLen == 26

\* register/update: options.headline.length > 25
HeadlineLimit == 25

\* ------------------------------------------------------------ value helpers

None == <<>>
Some(v) == <<v>>
IsSome(o) == o # <<>>

\* JavaScript truthiness of an optional string: undefined and '' are falsy.
TruthyStr(o) == o # <<>> /\ o[1] # <<>>

Bytes == UNION {[1..n -> {0, 1}] : n \in 0..MaxFileLen}

Num(x2) == [nan |-> FALSE, x2 |-> x2]
NaN == [nan |-> TRUE, x2 |-> 0]
\* a < b of JavaScript on numbers: false when either is NaN
NumLt(a, b) == ~a.nan /\ ~b.nan /\ a.x2 < b.x2
NumIsInteger(a) == ~a.nan /\ a.x2 % 2 = 0

\* String.prototype.toLowerCase on the tokens the model uses
ToLowerCase(s) ==
  CASE s = "PNG" -> "png"
    [] s = "Insufficient" -> "insufficient"
    [] s = "INSUFFICIENT" -> "insufficient"
    [] OTHER -> s

\* ------------------------------------------------------------------ errors

NoError == [name |-> "", code |-> "", status |-> None, message |-> <<>>]

CaptureError(message, code, status) ==
  [name |-> "CaptureError", code |-> code, status |-> status, message |-> message]

AuthenticationError(message) ==
  [name |-> "AuthenticationError", code |-> "AUTHENTICATION_ERROR",
   status |-> Some(401), message |-> message]

PermissionError(message) ==
  [name |-> "PermissionError", code |-> "PERMISSION_ERROR",
   status |-> Some(403), message |-> message]

NotFoundError(nid) ==
  [name |-> "NotFoundError", code |-> "NOT_FOUND", status |-> Some(404),
   message |-> IF TruthyStr(nid) THEN <<"Asset not found:">> \o nid[1]
               ELSE <<"Asset not found">>]

InsufficientFundsError(message) ==
  [name |-> "InsufficientFundsError", code |-> "INSUFFICIENT_FUNDS",
   status |-> Some(400), message |-> message]

ValidationError(message) ==
  [name |-> "ValidationError", code |-> "VALIDATION_ERROR", status |-> None,
   message |-> message]

NetworkError(message, statusCode) ==
  [name |-> "NetworkError", code |-> "NETWORK_ERROR", status |-> statusCode,
   message |-> message]

\* Errors that are not CaptureError: thrown by the runtime or a library.
ForeignError(name, message) ==
  [name |-> name, code |-> "", status |-> None, message |-> message]

\* The error fs.readFile rejects with: a Node.js system error, which has a
\* code of its own.
NoSuchFile ==
  [ForeignError("Error", <<"ENOENT: no such file or directory">>)
     EXCEPT !.code = "ENOENT"]

\* A JSON value read from a response body, as far as the client looks at it:
\* t is "absent", "string" or "object"; text is the string's tokens.
JAbsent == [t |-> "absent", text |-> <<>>]
JStr(text) == [t |-> "string", text |-> text]
JObj == [t |-> "object", text |-> <<"[object Object]">>]
JTruthy(j) == j.t = "object" \/ (j.t = "string" /\ j.text # <<>>)
\* a || b
JOr(a, b) == IF JTruthy(a) THEN a ELSE b

\* message.toLowerCase().includes('insufficient')
IncludesInsufficient(text) ==
  \E i \in 1..Len(text) : ToLowerCase(text[i]) = "insufficient"

\* Mutant of createApiError: the 403 case is missing.
createApiError_no403(statusCode, message, nid) ==
  CASE statusCode = 400 ->
         IF message.t # "string"
         THEN ForeignError("TypeError", <<"message.toLowerCase is not a function">>)
         ELSE IF IncludesInsufficient(message.text)
              THEN InsufficientFundsError(message.text)
              ELSE ValidationError(message.text)
    [] statusCode = 401 -> AuthenticationError(message.text)
    [] statusCode = 404 -> NotFoundError(nid)
    [] OTHER -> NetworkError(message.text, Some(statusCode))

createApiError(statusCode, message, nid) ==
  CASE statusCode = 400 ->
         IF message.t # "string"
         THEN ForeignError("TypeError", <<"message.toLowerCase is not a function">>)
         ELSE IF IncludesInsufficient(message.text)
              THEN InsufficientFundsError(message.text)
              ELSE ValidationError(message.text)
    [] statusCode = 401 -> AuthenticationError(message.text)
    [] statusCode = 403 -> PermissionError(message.text)
    [] statusCode = 404 -> NotFoundError(nid)
    [] OTHER -> NetworkError(message.text, Some(statusCode))

\* -------------------------------------------------------------- MIME types

\* MIME_TYPES[ext]: the table, and what a plain object also answers for the
\* names it inherits from Object.prototype (a non-string, not undefined).
MIME_TYPES(ext) ==
  CASE ext \in {"jpg", "jpeg"} -> Some("image/jpeg")
    [] ext = "png" -> Some("image/png")
    [] ext = "gif" -> Some("image/gif")
    [] ext = "webp" -> Some("image/webp")
    [] ext = "svg" -> Some("image/svg+xml")
    [] ext = "mp4" -> Some("video/mp4")
    [] ext = "webm" -> Some("video/webm")
    [] ext = "mov" -> Some("video/quicktime")
    [] ext = "mp3" -> Some("audio/mpeg")
    [] ext = "wav" -> Some("audio/wav")
    [] ext = "pdf" -> Some("application/pdf")
    [] ext = "json" -> Some("application/json")
    [] ext = "txt" -> Some("text/plain")
    [] ext \in {"constructor", "__proto__"} -> Some("[object inherited]")
    [] OTHER -> None

\* filename.split('.'): a filename is kept as its parts; '' splits to ['']
SplitDot(filename) == IF filename = <<>> THEN <<"">> ELSE filename

getMimeType(filename) ==
  LET parts == SplitDot(filename)
      ext == ToLowerCase(parts[Len(parts)])
      hit == MIME_TYPES(ext)
  IN IF IsSome(hit) THEN hit[1] ELSE "application/octet-stream"

\* path.basename(input): the final segment
basename(path) == IF path = <<>> THEN <<>> ELSE path[Len(path)]

\* ------------------------------------------------------------- file inputs

\* FileInput: kind is "path", "File", "Blob", "Uint8Array" or "Buffer".
\* A File or Blob holds its own immutable bytes; a Uint8Array or Buffer is a
\* view of caller-owned memory (the variable callerBuf); a path names a file
\* whose content is what the file system answers when it is read.
FileInput(kind, path, name, type, bytes) ==
  [kind |-> kind, path |-> path, name |-> name, type |-> type, bytes |-> bytes]

\* The bytes normalizeFile hands back: a view of caller memory or own bytes.
View == [alias |-> TRUE, bytes |-> <<>>]
Own(bytes) == [alias |-> FALSE, bytes |-> bytes]
Deref(data, mem) == IF data.alias THEN mem ELSE data.bytes

NormFail(err, didRead) ==
  [ok |-> FALSE, err |-> err, data |-> Own(<<>>), filename |-> <<>>,
   mimeType |-> "", read |-> didRead]
NormOk(data, filename, mimeType, didRead) ==
  [ok |-> TRUE, err |-> NoError, data |-> data, filename |-> filename,
   mimeType |-> mimeType, read |-> didRead]

\* !options?.filename
NoFilename(options) == ~TruthyStr(options.filename)

\* Mutant of isNodeEnvironment: every environment passes for Node.js.
isNodeEnvironment_always(e) == TRUE

\* isNodeEnvironment(), in the environment e
isNodeEnvironment(e) == e = "node"

\* Mutant of normalizeFile: a Blob, Buffer or Uint8Array without a filename
\* is accepted under the empty filename.
normalizeFile_filenameOptional(input, options, e, disk) ==
  LET filename == IF NoFilename(options) THEN <<>> ELSE options.filename[1]
  IN CASE input.kind = "path" ->
            IF ~isNodeEnvironment(e)
            THEN NormFail(ValidationError(
                   <<"File path input is only supported in Node.js environment">>), FALSE)
            ELSE IF disk = None
                 THEN NormFail(NoSuchFile, TRUE)
                 ELSE NormOk(Own(disk[1]), basename(input.path),
                             getMimeType(basename(input.path)), TRUE)
       [] input.kind = "File" ->
            NormOk(Own(input.bytes), input.name,
                   IF input.type # "" THEN input.type ELSE getMimeType(input.name),
                   FALSE)
       [] input.kind = "Blob" ->
            NormOk(Own(input.bytes), filename,
                   IF input.type # "" THEN input.type ELSE getMimeType(filename),
                   FALSE)
       [] OTHER -> NormOk(View, filename, getMimeType(filename), FALSE)

\* normalizeFile(input, options).  e: the environment; disk: what
\* fs.readFile answers for a path, None when it rejects (no such file).
normalizeFile(input, options, e, disk) ==
  CASE input.kind = "path" ->
         IF ~isNodeEnvironment(e)
         THEN NormFail(ValidationError(
                <<"File path input is only supported in Node.js environment">>), FALSE)
         ELSE IF disk = None
              THEN NormFail(NoSuchFile, TRUE)
              ELSE NormOk(Own(disk[1]), basename(input.path),
                          getMimeType(basename(input.path)), TRUE)
    [] input.kind = "File" ->
         NormOk(Own(input.bytes), input.name,
                IF input.type # "" THEN input.type ELSE getMimeType(input.name),
                FALSE)
    [] input.kind = "Blob" ->
         IF NoFilename(options)
         THEN NormFail(ValidationError(<<"filename is required for Blob input">>), FALSE)
         ELSE NormOk(Own(input.bytes), options.filename[1],
                     IF input.type # "" THEN input.type
                     ELSE getMimeType(options.filename[1]),
                     FALSE)
    [] OTHER ->
         \* Buffer or Uint8Array: a Buffer is a Uint8Array, so line 203 takes both
         IF NoFilename(options)
         THEN NormFail(ValidationError(<<"filename is required for binary input">>), FALSE)
         ELSE NormOk(View, options.filename[1], getMimeType(options.filename[1]), FALSE)

\* ------------------------------------------------------------------ crypto

\* sha256(data): the digest of a copy of data taken when sha256 is called
sha256(bytes) == [sha256of |-> bytes]

\* createIntegrityProof(proofHash, mimeType), now: Date.now()
createIntegrityProof(proofHash, mimeType, now) ==
  [proof_hash |-> proofHash, asset_mime_type |-> mimeType, created_at |-> now]

MimeCode(mimeType) ==
  CASE mimeType = "image/png" -> 10
    [] mimeType = "image/jpeg" -> 11
    [] mimeType = "text/plain" -> 12
    [] mimeType = "application/octet-stream" -> 13
    [] mimeType = "" -> 14
    [] OTHER -> 15

\* Mutant of EncodeProofJson: created_at is left out of the serialization.
EncodeProofJson_noCreatedAt(proof) ==
  <<2>> \o proof.proof_hash.sha256of \o <<3, MimeCode(proof.asset_mime_type)>>

\* new TextEncoder().encode(JSON.stringify(proof)): the three fields in order
EncodeProofJson(proof) ==
  <<2>> \o proof.proof_hash.sha256of \o
  <<3, MimeCode(proof.asset_mime_type), 4, proof.created_at>>

\* Mutant of ValidKey: a malformed key is taken as it is.
ValidKey_any(privateKey) == TRUE

\* new Wallet(privateKey) throws on a malformed key
ValidKey(privateKey) == privateKey \in {<<"keyA">>, <<"keyB">>}

\* Mutant of signIntegrityProof: proofHash takes the hash of the proof.
signIntegrityProof_hashOfProof(proof, privateKey) ==
  LET integritySha == sha256(EncodeProofJson(proof))
  IN [proofHash |-> integritySha,
      provider |-> "capture-sdk",
      signature |-> [signer |-> privateKey, message |-> integritySha],
      publicKey |-> [addressOf |-> privateKey],
      integritySha |-> integritySha]

signIntegrityProof(proof, privateKey) ==
  LET integritySha == sha256(EncodeProofJson(proof))
  IN [proofHash |-> proof.proof_hash,
      provider |-> "capture-sdk",
      signature |-> [signer |-> privateKey, message |-> integritySha],
      publicKey |-> [addressOf |-> privateKey],
      integritySha |-> integritySha]

\* ------------------------------------------------------------ wire formats

DEFAULT_BASE_URL == <<"https://api.numbersprotocol.io/api/v3">>

\* One part of a FormData body, in append order.  kind: "text" (a string),
\* "file" (a Blob with filename), "proof" (JSON.stringify(proof)), "sigs"
\* (JSON.stringify([signature])), "num" (String(number)), "json" (other JSON).
NoProof == createIntegrityProof(sha256(<<>>), "", 0)
Part(name, kind) ==
  [name |-> name, kind |-> kind, text |-> <<>>, bytes |-> <<>>,
   filename |-> <<>>, type |-> "", proof |-> NoProof, sigs |-> <<>>,
   num |-> Num(0)]
TextPart(name, text) == [Part(name, "text") EXCEPT !.text = text]
FilePart(name, bytes, type, filename) ==
  [Part(name, "file") EXCEPT !.bytes = bytes, !.type = type, !.filename = filename]
ProofPart(name, proof) == [Part(name, "proof") EXCEPT !.proof = proof]
SigsPart(name, sigs) == [Part(name, "sigs") EXCEPT !.sigs = sigs]
NumPart(name, n) == [Part(name, "num") EXCEPT !.num = n]
JsonPart(name, keys) == [Part(name, "json") EXCEPT !.text = keys]

\* A request handed to fetch.  ep names the endpoint: "assets" (base/assets/),
\* "asset" (base/assets/{nid}/), "history", "merge", "assetSearch", "nftSearch".
Request(ep, method, base, nid, testnet, headers, form, json) ==
  [ep |-> ep, method |-> method, base |-> base, nid |-> nid,
   testnet |-> testnet, headers |-> headers, form |-> form, json |-> json]

\* Mutant of Headers: the Bearer scheme for the token scheme.
Headers_bearer(token, contentType) ==
  [Authorization |-> <<"Bearer">> \o token, ContentType |-> contentType]

\* headers: the Authorization value and the Content-Type ("" when unset)
Headers(token, contentType) ==
  [Authorization |-> <<"token">> \o token, ContentType |-> contentType]

AssetApiResponse(id, name, mime, caption, headline) ==
  [id |-> id, asset_file_name |-> name, asset_file_mime_type |-> mime,
   caption |-> caption, headline |-> headline]
NoAsset == AssetApiResponse(<<>>, <<>>, "", None, None)

CommitApiResponse(cid, ts) ==
  [assetTreeCid |-> cid, txHash |-> "0xtx", author |-> "0xauthor",
   committer |-> "0xcommitter", timestampCreated |-> ts, action |-> "commit"]

ErrorBody(detail, message, error) ==
  [detail |-> detail, message |-> message, error |-> error]

\* The asset-search body: precise_match, input_file_mime_type, order_id
\* (None: absent) and similar_matches (None: absent; else {nid, distance}s).
SearchBody(precise, mime, similar, order) ==
  [precise_match |-> precise, input_file_mime_type |-> mime,
   similar_matches |-> similar, order_id |-> order]
NoSearchBody == SearchBody(None, None, None, None)

\* The NFT-search body: records (None: absent) and order_id.
NftBody(records, order) == [records |-> records, order_id |-> order]
NoNftBody == NftBody(None, None)

NoErrorBody == ErrorBody(JAbsent, JAbsent, JAbsent)

\* A fetch outcome.  net: the promise resolved (FALSE: it rejected, no HTTP
\* response); json: the body parses as JSON; then the fields an endpoint's
\* body carries (err for a non-2xx body; merged: the mergedAssetTree field,
\* None when absent, Some(<<>>) when null; tree: the rest of a merge body).
NoResponse ==
  [net |-> FALSE, status |-> 0, json |-> FALSE, err |-> NoErrorBody,
   asset |-> NoAsset, commits |-> <<>>, merged |-> None, tree |-> <<>>,
   search |-> NoSearchBody, nft |-> NoNftBody]

Statuses == {200, 400, 401, 403, 404, 500, 503}
\* response.ok
ok(status) == status >= 200 /\ status <= 299

ErrorBodies ==
  {NoErrorBody,
   ErrorBody(JStr(<<"Insufficient", "NUM">>), JAbsent, JAbsent),
   ErrorBody(JAbsent, JStr(<<"INSUFFICIENT", "funds">>), JAbsent),
   ErrorBody(JAbsent, JAbsent, JStr(<<"insufficient">>)),
   ErrorBody(JStr(<<"bad", "request">>), JStr(<<"Insufficient">>), JAbsent),
   ErrorBody(JObj, JAbsent, JAbsent)}

\* What any endpoint may answer besides a parsed 2xx body: no response at
\* all, a body that is not JSON, or a non-2xx status with a JSON error body.
FailedResponses ==
  {NoResponse}
  \cup {[NoResponse EXCEPT !.net = TRUE, !.status = st] : st \in Statuses}
  \cup {[NoResponse EXCEPT !.net = TRUE, !.status = st, !.json = TRUE, !.err = e] :
          st \in {x \in Statuses : ~ok(x)}, e \in ErrorBodies}

OkResponse == [NoResponse EXCEPT !.net = TRUE, !.status = 200, !.json = TRUE]

AssetResponses ==
  FailedResponses \cup
  {[OkResponse EXCEPT !.asset = a] :
     a \in {AssetApiResponse(<<"nidS">>, <<"a", "png">>, "image/png", None, None),
            AssetApiResponse(<<"nidT">>, <<"b", "txt">>, "text/plain",
                             Some(<<"cap">>), Some(<<"h">>))}}

CommitSet == {CommitApiResponse(c, t) : c \in {"cidA", "cidB"}, t \in {1, 2}}
CommitLists == UNION {[1..n -> CommitSet] : n \in 0..MaxCommits}
HistoryResponses ==
  FailedResponses \cup {[OkResponse EXCEPT !.commits = cs] : cs \in CommitLists}

MergeResponses ==
  FailedResponses \cup
  {[OkResponse EXCEPT !.merged = m, !.tree = <<"treeW">>] :
     m \in {None, Some(<<>>), Some(<<"treeM">>)}}

SearchResponses ==
  FailedResponses \cup
  {[OkResponse EXCEPT !.search = b] :
     b \in {NoSearchBody,
            SearchBody(Some(<<"nidP">>), Some("image/png"),
                       Some(<<[nid |-> <<"nidQ">>, distance |-> Num(1)]>>),
                       Some(<<"order1">>))}}

NftResponses ==
  FailedResponses \cup
  {[OkResponse EXCEPT !.nft = b] :
     b \in {NoNftBody,
            NftBody(Some(<<[token_id |-> "7", contract |-> "0xc",
                            network |-> "ethereum", owner |-> Some("0xo")]>>),
                    Some(<<"order2">>))}}

\* ------------------------------------------------------------------- state

VARIABLES
  client,     \* None before construction, else Some([token, testnet, baseUrl])
  ctorError,  \* what the last constructor call threw (NoError: nothing)
  env,        \* where the SDK runs: "node" or "browser"
  pc,         \* where the call in flight is suspended
  call,       \* the workflow called and its arguments
  norm,       \* what normalizeFile returned to the call
  normSrc,    \* the source's bytes at the time normalizeFile returned
  proofHash,  \* None, or Some(digest) once sha256(data) was called
  form,       \* the FormData built so far
  reqs,       \* the requests the call handed to fetch, in order
  resps,      \* the fetch outcomes the call received, in order
  result,     \* what the call returned or threw
  callerBuf,  \* the caller-owned memory behind a Uint8Array/Buffer input
  reads       \* how many times the call read the file system

vars == <<client, ctorError, env, pc, call, norm, normSrc, proofHash, form,
          reqs, resps, result, callerBuf, reads>>

\* RegisterOptions, UpdateOptions and AssetSearchOptions in one record; a
\* field the workflow's options type lacks stays None.
Opts(filename, caption, headline, publicAccess, privateKey) ==
  [filename |-> filename, caption |-> caption, headline |-> headline,
   publicAccess |-> publicAccess, privateKey |-> privateKey,
   commitMessage |-> None, customMetadata |-> None,
   fileUrl |-> None, nid |-> None, file |-> None,
   threshold |-> None, sampleCount |-> None]
NoOpts == Opts(None, None, None, None, None)

NoFile == FileInput("", <<>>, <<>>, "", <<>>)
\* signal: the AbortSignal the caller passes along, None when it passes none
\* ("active" or "aborted"); no workflow has a parameter for it.
Call(op, nid, file, options) ==
  [op |-> op, nid |-> nid, file |-> file, options |-> options, signal |-> None]
NoCall == Call("", <<>>, NoFile, NoOpts)
NoNorm == NormFail(NoError, FALSE)

Asset(nid, filename, mimeType, caption, headline) ==
  [nid |-> nid, filename |-> filename, mimeType |-> mimeType,
   caption |-> caption, headline |-> headline]

\* Mutant of toAsset: the caption is dropped.
toAsset_noCaption(response) ==
  Asset(response.id, response.asset_file_name, response.asset_file_mime_type,
        None, response.headline)

toAsset(response) ==
  Asset(response.id, response.asset_file_name, response.asset_file_mime_type,
        response.caption, response.headline)

NoResult ==
  [state |-> "none", err |-> NoError, asset |-> toAsset(NoAsset),
   commits |-> <<>>, tree |-> <<>>,
   search |-> [preciseMatch |-> <<>>, inputFileMimeType |-> "",
               similarMatches |-> <<>>, orderId |-> <<>>],
   nft |-> [records |-> <<>>, orderId |-> <<>>]]
Threw(err) == [NoResult EXCEPT !.state = "err", !.err = err]
Returned == [NoResult EXCEPT !.state = "ok"]

Init ==
  /\ client = None
  /\ ctorError = NoError
  /\ env \in {"node", "browser"}
  /\ pc = "new"
  /\ call = NoCall
  /\ norm = NoNorm
  /\ normSrc = <<>>
  /\ proofHash = None
  /\ form = <<>>
  /\ reqs = <<>>
  /\ resps = <<>>
  /\ result = NoResult
  /\ callerBuf = <<>>
  /\ reads = 0

\* ------------------------------------------------------------- constructor

\* privateKey is no property of CaptureOptions: it is the property a caller
\* adds to the object all the same, which the constructor never reads.
CaptureOption(token, testnet, baseUrl) ==
  [token |-> token, testnet |-> testnet, baseUrl |-> baseUrl,
   privateKey |-> None]

\* The options the constructor is called with: no token, an empty one, a
\* token alone, and a token with testnet, a base URL of the caller's and a
\* private key.
CaptureOptions ==
  {CaptureOption(None, None, None),
   CaptureOption(Some(<<>>), Some(TRUE), None),
   CaptureOption(Some(<<"tokA">>), None, None),
   [CaptureOption(Some(<<"tokB">>), Some(TRUE), Some(<<"https://custom.example/api">>))
      EXCEPT !.privateKey = Some(<<"keyB">>)]}

\* Mutant of Construct: the token check is gone.
Construct_unchecked(options) ==
  /\ pc = "new"
  /\ client' = Some([token |-> IF IsSome(options.token)
                               THEN options.token[1] ELSE <<>>,
                     testnet |-> IF IsSome(options.testnet)
                                 THEN options.testnet[1] ELSE FALSE,
                     baseUrl |-> IF IsSome(options.baseUrl)
                                 THEN options.baseUrl[1]
                                 ELSE DEFAULT_BASE_URL])
  /\ ctorError' = NoError
  /\ pc' = "idle"
  /\ UNCHANGED <<env, call, norm, normSrc, proofHash, form, reqs, resps,
                 result, callerBuf, reads>>

\* new Capture(options)
Construct(options) ==
  /\ pc = "new"
  /\ IF ~TruthyStr(options.token)
     THEN /\ ctorError' = ValidationError(<<"token is required">>)
          /\ UNCHANGED <<client, pc>>
     ELSE /\ client' = Some([token |-> options.token[1],
                             testnet |-> IF IsSome(options.testnet)
                                         THEN options.testnet[1] ELSE FALSE,
                             baseUrl |-> IF IsSome(options.baseUrl)
                                         THEN options.baseUrl[1]
                                         ELSE DEFAULT_BASE_URL])
          /\ ctorError' = NoError
          /\ pc' = "idle"
  /\ UNCHANGED <<env, call, norm, normSrc, proofHash, form, reqs, resps,
                 result, callerBuf, reads>>

\* --------------------------------------------------------- request executor

SyntaxError == ForeignError("SyntaxError", <<"Unexpected token in JSON">>)
FetchFailed == ForeignError("TypeError", <<"fetch failed">>)

\* The error a workflow throws on a fetch outcome, NoError when it goes on to
\* use the parsed body.  generic: the message used when the body gives none;
\* message: what the workflow reads from a JSON error body.
Outcome(r, message, nid) ==
  IF ~r.net THEN FetchFailed
  ELSE IF ~ok(r.status) THEN createApiError(r.status, message, nid)
  ELSE IF ~r.json THEN SyntaxError
  ELSE NoError

\* Capture.request: errorData.detail || errorData.message || message
request(r, nid) ==
  LET generic == JStr(<<"API request failed with status", ToString(r.status)>>)
      message == IF r.json THEN JOr(r.err.detail, JOr(r.err.message, generic))
                 ELSE generic
  IN Outcome(r, message, nid)

\* fetch(url, {method, headers, body}) as the workflows call it
Send(ep, method, nid, contentType, body, json) ==
  reqs' = Append(reqs,
            Request(ep, method,
                    IF ep \in {"assets", "asset"} THEN client[1].baseUrl ELSE <<>>,
                    nid, ep = "history" /\ client[1].testnet,
                    Headers(client[1].token, contentType), body, json))

Finish(res) == pc' = "done" /\ result' = res

\* -------------------------------------------------------------- the caller

\* The caller writes to the memory behind the Uint8Array or Buffer it passed.
CallerMutate ==
  /\ pc \notin {"new", "idle"}
  /\ \E i \in 1..Len(callerBuf) :
       callerBuf' = [callerBuf EXCEPT ![i] = 1 - callerBuf[i]]
  /\ UNCHANGED <<client, ctorError, env, pc, call, norm, normSrc, proofHash,
                 form, reqs, resps, result, reads>>

\* The caller aborts the signal it passed while the call's fetch is in flight.
\* Nothing of the client listens to it.
SignalAbort ==
  /\ pc = "get_fetch"
  /\ call.signal = Some("active")
  /\ call' = [call EXCEPT !.signal = Some("aborted")]
  /\ UNCHANGED <<client, ctorError, env, pc, norm, normSrc, proofHash, form,
                 reqs, resps, result, callerBuf, reads>>

\* Mutant of Return: the requests and responses of the call outlive it, as
\* they would in a cache the client kept.
Return_keepsHistory ==
  /\ pc = "done"
  /\ pc' = "idle"
  /\ call' = NoCall
  /\ norm' = NoNorm
  /\ normSrc' = <<>>
  /\ proofHash' = None
  /\ form' = <<>>
  /\ result' = NoResult
  /\ callerBuf' = <<>>
  /\ reads' = 0
  /\ UNCHANGED <<client, ctorError, env, reqs, resps>>

\* The caller takes the call's result; the client is ready for the next call.
Return ==
  /\ pc = "done"
  /\ pc' = "idle"
  /\ call' = NoCall
  /\ norm' = NoNorm
  /\ normSrc' = <<>>
  /\ proofHash' = None
  /\ form' = <<>>
  /\ reqs' = <<>>
  /\ resps' = <<>>
  /\ result' = NoResult
  /\ callerBuf' = <<>>
  /\ reads' = 0
  /\ UNCHANGED <<client, ctorError, env>>

\* ---------------------------------------------------------------- register

Chars(n) == [i \in 1..n |-> "h"]
Headlines ==
  {None, Some(Chars(0))} \cup {Some(Chars(n)) : n \in HeadlineLimit..MaxHeadlineLen}

BufferKinds == {"Uint8Array", "Buffer"}

\* The FileInput values a caller passes.  A Buffer exists only under Node.js.
FileInputs ==
  {FileInput("path", <<<<"dir">>, <<"a", "PNG">>>>, <<>>, "", <<>>)}
  \cup {FileInput("File", <<>>, <<"f", "txt">>, t, b) :
          t \in {"", "image/jpeg"}, b \in Bytes}
  \cup {FileInput("Blob", <<>>, <<>>, "", b) : b \in Bytes}
  \cup {FileInput(k, <<>>, <<>>, "", <<>>) :
          k \in IF env = "node" THEN BufferKinds ELSE {"Uint8Array"}}

RegisterOptions ==
  {Opts(f, c, h, p, k) :
     f \in {None, Some(<<"b", "png">>)},
     c \in {None, Some(<<"cap">>)},
     h \in Headlines,
     p \in {None, Some(FALSE)},
     k \in {None, Some(<<"keyA">>), Some(<<"bad">>)}}

\* What fs.readFile may answer for a path, and what the caller's buffer holds
DiskFor(file) ==
  IF file.kind = "path" /\ env = "node" THEN {None} \cup {Some(b) : b \in Bytes} ELSE {None}
BufFor(file) == IF file.kind \in BufferKinds THEN Bytes ELSE {<<>>}

\* Mutant of HeadlineTooLong: >= for >.
HeadlineTooLong_offByOne(options) ==
  TruthyStr(options.headline) /\ Len(options.headline[1]) >= HeadlineLimit

\* options.headline && options.headline.length > 25
HeadlineTooLong(options) ==
  TruthyStr(options.headline) /\ Len(options.headline[1]) > HeadlineLimit

HeadlineError == ValidationError(<<"headline must be 25 characters or less">>)

\* register(file, options), to its first suspension: the headline check and
\* normalizeFile.  buf: the bytes the caller's buffer holds at the call.
Register(file, options, buf, disk) ==
  /\ pc = "idle"
  /\ call' = Call("register", <<>>, file, options)
  /\ callerBuf' = buf
  /\ IF HeadlineTooLong(options)
     THEN /\ Finish(Threw(HeadlineError))
          /\ UNCHANGED <<norm, normSrc, reads>>
     ELSE LET n == normalizeFile(file, options, env, disk)
          IN /\ reads' = IF n.read THEN reads + 1 ELSE reads
             /\ IF n.ok
                THEN /\ norm' = n
                     /\ normSrc' = Deref(n.data, buf)
                     /\ pc' = "reg_normalized"
                     /\ UNCHANGED result
                ELSE /\ Finish(Threw(n.err))
                     /\ UNCHANGED <<norm, normSrc>>
  /\ UNCHANGED <<client, ctorError, env, proofHash, form, reqs, resps>>

\* String(publicAccess) with publicAccess = options?.publicAccess ?? true
PublicAccessText(options) ==
  IF IsSome(options.publicAccess) /\ ~options.publicAccess[1]
  THEN <<"false">> ELSE <<"true">>

\* Mutant of EmptyData: the check is gone.
EmptyData_unchecked(data) == FALSE

\* data.length === 0
EmptyData(data) == Len(data) = 0

\* register from the return of normalizeFile to the next suspension: the
\* empty check, the FormData, and either sha256(data) or the request.
RegisterBuild ==
  /\ pc = "reg_normalized"
  /\ LET data == Deref(norm.data, callerBuf)
         o == call.options
         body == <<FilePart("asset_file", data, norm.mimeType, norm.filename)>>
                 \o (IF TruthyStr(o.caption)
                     THEN <<TextPart("caption", o.caption[1])>> ELSE <<>>)
                 \o (IF TruthyStr(o.headline)
                     THEN <<TextPart("headline", o.headline[1])>> ELSE <<>>)
                 \o <<TextPart("public_access", PublicAccessText(o))>>
     IN IF EmptyData(data)
        THEN /\ Finish(Threw(ValidationError(<<"file cannot be empty">>)))
             /\ UNCHANGED <<form, proofHash, reqs>>
        ELSE /\ form' = body
             /\ UNCHANGED result
             /\ IF TruthyStr(o.privateKey)
                THEN /\ proofHash' = Some(sha256(data))
                     /\ pc' = "reg_hashing"
                     /\ UNCHANGED reqs
                ELSE /\ Send("assets", "POST", None, "", body, <<>>)
                     /\ pc' = "reg_fetch"
                     /\ UNCHANGED proofHash
  /\ UNCHANGED <<client, ctorError, env, call, norm, normSrc, resps,
                 callerBuf, reads>>

Clock == {1000, 1001}

\* Mutant of RegisterSign: the digest is taken anew, of the data as it is
\* when the signing step runs.
RegisterSign_rehash(now) ==
  /\ pc = "reg_hashing"
  /\ LET key == call.options.privateKey[1]
         proof == createIntegrityProof(sha256(Deref(norm.data, callerBuf)),
                                       norm.mimeType, now)
         body == form \o <<ProofPart("signed_metadata", proof),
                           SigsPart("signature", <<signIntegrityProof(proof, key)>>)>>
     IN IF ~ValidKey(key)
        THEN /\ Finish(Threw(ForeignError("TypeError", <<"invalid private key">>)))
             /\ UNCHANGED <<form, reqs>>
        ELSE /\ form' = body
             /\ Send("assets", "POST", None, "", body, <<>>)
             /\ pc' = "reg_fetch"
             /\ UNCHANGED result
  /\ UNCHANGED <<client, ctorError, env, call, norm, normSrc, proofHash,
                 resps, callerBuf, reads>>

\* register once the digest is there: the proof, the signature, the request.
RegisterSign(now) ==
  /\ pc = "reg_hashing"
  /\ LET key == call.options.privateKey[1]
         proof == createIntegrityProof(proofHash[1], norm.mimeType, now)
         body == form \o <<ProofPart("signed_metadata", proof),
                           SigsPart("signature", <<signIntegrityProof(proof, key)>>)>>
     IN IF ~ValidKey(key)
        THEN /\ Finish(Threw(ForeignError("TypeError", <<"invalid private key">>)))
             /\ UNCHANGED <<form, reqs>>
        ELSE /\ form' = body
             /\ Send("assets", "POST", None, "", body, <<>>)
             /\ pc' = "reg_fetch"
             /\ UNCHANGED result
  /\ UNCHANGED <<client, ctorError, env, call, norm, normSrc, proofHash,
                 resps, callerBuf, reads>>

\* The rest of a workflow that ends with this.request and toAsset.
AssetReply(r, nid) ==
  /\ resps' = Append(resps, r)
  /\ LET e == request(r, nid)
     IN Finish(IF e # NoError THEN Threw(e)
               ELSE [Returned EXCEPT !.asset = toAsset(r.asset)])
  /\ UNCHANGED <<client, ctorError, env, call, norm, normSrc, proofHash,
                 form, reqs, callerBuf, reads>>

RegisterResponse(r) ==
  /\ pc = "reg_fetch"
  /\ AssetReply(r, None)

\* ------------------------------------------------------------ update, get

Nids == {<<>>, <<"nidA">>}

UpdateOptions ==
  {[NoOpts EXCEPT !.caption = c, !.headline = h, !.commitMessage = m,
                  !.customMetadata = x] :
     c \in {None, Some(<<>>), Some(<<"cap">>)},
     h \in Headlines,
     m \in {None, Some(<<>>), Some(<<"msg">>)},
     x \in {None, Some(<<>>), Some(<<"k">>)}}

\* update(nid, options).  customMetadata: Some(keys), an object, is truthy
\* also when it has no key.
Update(nid, options) ==
  /\ pc = "idle"
  /\ call' = Call("update", nid, NoFile, options)
  /\ LET body == (IF IsSome(options.caption)
                  THEN <<TextPart("caption", options.caption[1])>> ELSE <<>>)
                 \o (IF IsSome(options.headline)
                     THEN <<TextPart("headline", options.headline[1])>> ELSE <<>>)
                 \o (IF TruthyStr(options.commitMessage)
                     THEN <<TextPart("commit_message", options.commitMessage[1])>>
                     ELSE <<>>)
                 \o (IF IsSome(options.customMetadata)
                     THEN <<JsonPart("nit_commit_custom", options.customMetadata[1])>>
                     ELSE <<>>)
     IN IF nid = <<>>
        THEN /\ Finish(Threw(ValidationError(<<"nid is required">>)))
             /\ UNCHANGED <<form, reqs>>
        ELSE IF HeadlineTooLong(options)
        THEN /\ Finish(Threw(HeadlineError))
             /\ UNCHANGED <<form, reqs>>
        ELSE /\ form' = body
             /\ Send("asset", "PATCH", Some(nid), "", body, <<>>)
             /\ pc' = "upd_fetch"
             /\ UNCHANGED result
  /\ UNCHANGED <<client, ctorError, env, norm, normSrc, proofHash, resps,
                 callerBuf, reads>>

UpdateResponse(r) ==
  /\ pc = "upd_fetch"
  /\ AssetReply(r, Some(call.nid))

Signals == {None, Some("active")}

\* get(nid), called with a signal as one argument more, which get ignores
Get(nid, signal) ==
  /\ pc = "idle"
  /\ call' = [Call("get", nid, NoFile, NoOpts) EXCEPT !.signal = signal]
  /\ IF nid = <<>>
     THEN /\ Finish(Threw(ValidationError(<<"nid is required">>)))
          /\ UNCHANGED reqs
     ELSE /\ Send("asset", "GET", Some(nid), "", <<>>, <<>>)
          /\ pc' = "get_fetch"
          /\ UNCHANGED result
  /\ UNCHANGED <<client, ctorError, env, norm, normSrc, proofHash, form,
                 resps, callerBuf, reads>>

\* Mutant of GetResponse: a failed request is sent once more.
GetResponse_retryOnce(r) ==
  /\ pc = "get_fetch"
  /\ IF request(r, Some(call.nid)) # NoError /\ Len(reqs) < 2
     THEN /\ resps' = Append(resps, r)
          /\ Send("asset", "GET", Some(call.nid), "", <<>>, <<>>)
          /\ UNCHANGED <<client, ctorError, env, pc, call, norm, normSrc,
                         proofHash, form, result, callerBuf, reads>>
     ELSE AssetReply(r, Some(call.nid))

GetResponse(r) ==
  /\ pc = "get_fetch"
  /\ AssetReply(r, Some(call.nid))

\* ------------------------------------------------- getHistory, getAssetTree

Commit(c) ==
  [assetTreeCid |-> c.assetTreeCid, txHash |-> c.txHash, author |-> c.author,
   committer |-> c.committer, timestamp |-> c.timestampCreated,
   action |-> c.action]

\* data.commits.map(...) of getHistory
MapCommits(commits) == [i \in 1..Len(commits) |-> Commit(commits[i])]

\* Mutant of commitData: the list is built back to front.
commitData_reversed(commits) ==
  [i \in 1..Len(commits) |->
     [assetTreeCid |-> commits[Len(commits) + 1 - i].assetTreeCid,
      timestampCreated |-> commits[Len(commits) + 1 - i].timestamp]]

\* commits.map(...) of getAssetTree: the merge request's body
commitData(commits) ==
  [i \in 1..Len(commits) |->
     [assetTreeCid |-> commits[i].assetTreeCid,
      timestampCreated |-> commits[i].timestamp]]

\* Mutant of HistoryCall: the nid check is gone.
HistoryCall_unchecked(op, nid, at) ==
  /\ pc = "idle"
  /\ call' = Call(op, nid, NoFile, NoOpts)
  /\ Send("history", "GET", Some(nid), "application/json", <<>>, <<>>)
  /\ pc' = at
  /\ UNCHANGED <<client, ctorError, env, norm, normSrc, proofHash, form,
                 resps, result, callerBuf, reads>>

\* getHistory(nid) to its fetch; op: the workflow the caller invoked
HistoryCall(op, nid, at) ==
  /\ pc = "idle"
  /\ call' = Call(op, nid, NoFile, NoOpts)
  /\ IF nid = <<>>
     THEN /\ Finish(Threw(ValidationError(<<"nid is required">>)))
          /\ UNCHANGED reqs
     ELSE /\ Send("history", "GET", Some(nid), "application/json", <<>>, <<>>)
          /\ pc' = at
          /\ UNCHANGED result
  /\ UNCHANGED <<client, ctorError, env, norm, normSrc, proofHash, form,
                 resps, callerBuf, reads>>

\* What getHistory throws on the history endpoint's answer (NoError: none)
getHistory(r, nid) ==
  Outcome(r, JStr(<<"Failed to fetch asset history">>), Some(nid))

GetHistory(nid) == HistoryCall("getHistory", nid, "hist_fetch")

GetHistoryResponse(r) ==
  /\ pc = "hist_fetch"
  /\ resps' = Append(resps, r)
  /\ LET e == getHistory(r, call.nid)
     IN Finish(IF e # NoError THEN Threw(e)
               ELSE [Returned EXCEPT !.commits = MapCommits(r.commits)])
  /\ UNCHANGED <<client, ctorError, env, call, norm, normSrc, proofHash,
                 form, reqs, callerBuf, reads>>

\* getAssetTree(nid): its own nid check, then getHistory(nid)
GetAssetTree(nid) == HistoryCall("getAssetTree", nid, "tree_history")

\* Mutant of NoCommits: the check is gone.
NoCommits_unchecked(commits) == FALSE

\* commits.length === 0
NoCommits(commits) == Len(commits) = 0

\* getAssetTree from the return of getHistory to the merge fetch
TreeHistoryResponse(r) ==
  /\ pc = "tree_history"
  /\ resps' = Append(resps, r)
  /\ LET e == getHistory(r, call.nid)
         commits == MapCommits(r.commits)
     IN IF e # NoError
        THEN /\ Finish(Threw(e))
             /\ UNCHANGED reqs
        ELSE IF NoCommits(commits)
        THEN /\ Finish(Threw(CaptureError(<<"No commits found for asset">>,
                                          "NO_COMMITS", Some(404))))
             /\ UNCHANGED reqs
        ELSE /\ Send("merge", "POST", None, "application/json", <<>>,
                     commitData(commits))
             /\ pc' = "tree_merge"
             /\ UNCHANGED result
  /\ UNCHANGED <<client, ctorError, env, call, norm, normSrc, proofHash,
                 form, callerBuf, reads>>

\* data.mergedAssetTree || data
mergedOrBody(r) ==
  IF IsSome(r.merged) /\ r.merged[1] # <<>> THEN r.merged[1] ELSE r.tree

TreeMergeResponse(r) ==
  /\ pc = "tree_merge"
  /\ resps' = Append(resps, r)
  /\ LET e == Outcome(r, JStr(<<"Failed to merge asset trees">>), Some(call.nid))
     IN Finish(IF e # NoError THEN Threw(e)
               ELSE [Returned EXCEPT !.tree = mergedOrBody(r)])
  /\ UNCHANGED <<client, ctorError, env, call, norm, normSrc, proofHash,
                 form, reqs, callerBuf, reads>>

\* ----------------------------------------------------- searchAsset, searchNft

\* threshold: undefined, NaN, -0.5, 0, 1, 1.5
Thresholds == {None, Some(NaN)} \cup {Some(Num(x)) : x \in {-1, 0, 2, 3}}
\* sampleCount: undefined, NaN, -1, 0, 0.5, 1, 1.5
SampleCounts == {None, Some(NaN)} \cup {Some(Num(x)) : x \in {-2, 0, 1, 2, 3}}

SearchFiles ==
  {None} \cup {Some(f) : f \in {x \in FileInputs : x.type = ""}}

AssetSearchOptions ==
  {[NoOpts EXCEPT !.fileUrl = u, !.nid = n, !.file = f, !.threshold = t,
                  !.sampleCount = c] :
     u \in {None, Some(<<"https://example.com/image.jpg">>)},
     n \in {None, Some(<<>>), Some(<<"nidA">>)},
     f \in SearchFiles,
     t \in Thresholds,
     c \in SampleCounts}

\* options.file as a condition: an object is truthy, the path '' is not
FileGiven(f) == IsSome(f) /\ ~(f[1].kind = "path" /\ f[1].path = <<>>)

NoSource(o) == ~TruthyStr(o.fileUrl) /\ ~FileGiven(o.file) /\ ~TruthyStr(o.nid)
\* threshold !== undefined && (threshold < 0 || threshold > 1)
BadThreshold(o) ==
  IsSome(o.threshold)
  /\ (NumLt(o.threshold[1], Num(0)) \/ NumLt(Num(2), o.threshold[1]))
\* sampleCount !== undefined && (sampleCount < 1 || !Number.isInteger(sampleCount))
BadSampleCount(o) ==
  IsSome(o.sampleCount)
  /\ (NumLt(o.sampleCount[1], Num(2)) \/ ~NumIsInteger(o.sampleCount[1]))

\* Mutant of SearchParams: the token goes into the form as well.
SearchParams_withToken(o) ==
  <<TextPart("token", client[1].token)>>
  \o (IF IsSome(o.threshold) THEN <<NumPart("threshold", o.threshold[1])>> ELSE <<>>)
  \o (IF IsSome(o.sampleCount)
      THEN <<NumPart("sample_count", o.sampleCount[1])>> ELSE <<>>)

\* The optional parameters appended after the source
SearchParams(o) ==
  (IF IsSome(o.threshold) THEN <<NumPart("threshold", o.threshold[1])>> ELSE <<>>)
  \o (IF IsSome(o.sampleCount)
      THEN <<NumPart("sample_count", o.sampleCount[1])>> ELSE <<>>)

SearchFile(o) == IF IsSome(o.file) THEN o.file[1] ELSE NoFile

\* Mutant of SourceField: nid before fileUrl.
SourceField_nidFirst(o) ==
  IF TruthyStr(o.nid) THEN "nid"
  ELSE IF TruthyStr(o.fileUrl) THEN "url" ELSE "file"

\* The form field of the input source: if (fileUrl) ... else if (nid) ...
\* else if (file) ...
SourceField(o) ==
  IF TruthyStr(o.fileUrl) THEN "url"
  ELSE IF TruthyStr(o.nid) THEN "nid" ELSE "file"

\* searchAsset(options) to its first suspension
SearchAsset(o, buf, disk) ==
  /\ pc = "idle"
  /\ call' = Call("searchAsset", <<>>, SearchFile(o), o)
  /\ callerBuf' = buf
  /\ IF NoSource(o)
     THEN /\ Finish(Threw(ValidationError(
                 <<"Must provide fileUrl, file, or nid for asset search">>)))
          /\ UNCHANGED <<norm, normSrc, reads, form, reqs>>
     ELSE IF BadThreshold(o)
     THEN /\ Finish(Threw(ValidationError(<<"threshold must be between 0 and 1">>)))
          /\ UNCHANGED <<norm, normSrc, reads, form, reqs>>
     ELSE IF BadSampleCount(o)
     THEN /\ Finish(Threw(ValidationError(<<"sampleCount must be a positive integer">>)))
          /\ UNCHANGED <<norm, normSrc, reads, form, reqs>>
     ELSE IF SourceField(o) # "file"
     THEN LET body == <<IF SourceField(o) = "url" THEN TextPart("url", o.fileUrl[1])
                        ELSE TextPart("nid", o.nid[1])>> \o SearchParams(o)
          IN /\ form' = body
             /\ Send("assetSearch", "POST", None, "", body, <<>>)
             /\ pc' = "search_fetch"
             /\ UNCHANGED <<norm, normSrc, reads, result>>
     ELSE LET n == normalizeFile(o.file[1], NoOpts, env, disk)
          IN /\ reads' = IF n.read THEN reads + 1 ELSE reads
             /\ UNCHANGED <<form, reqs>>
             /\ IF n.ok
                THEN /\ norm' = n
                     /\ normSrc' = Deref(n.data, buf)
                     /\ pc' = "search_normalized"
                     /\ UNCHANGED result
                ELSE /\ Finish(Threw(n.err))
                     /\ UNCHANGED <<norm, normSrc>>
  /\ UNCHANGED <<client, ctorError, env, proofHash, resps>>

\* searchAsset from the return of normalizeFile to the fetch
SearchAssetBuild ==
  /\ pc = "search_normalized"
  /\ LET data == Deref(norm.data, callerBuf)
         body == <<FilePart("file", data, norm.mimeType, norm.filename)>>
                 \o SearchParams(call.options)
     IN /\ form' = body
        /\ Send("assetSearch", "POST", None, "", body, <<>>)
  /\ pc' = "search_fetch"
  /\ UNCHANGED <<client, ctorError, env, call, norm, normSrc, proofHash,
                 resps, result, callerBuf, reads>>

\* errorData.message || errorData.error || message, of both searches
searchMessage(r, generic) ==
  IF r.json THEN JOr(r.err.message, JOr(r.err.error, generic)) ELSE generic

OrEmpty(o) == IF TruthyStr(o) THEN o[1] ELSE <<>>

SearchAssetResponse(r) ==
  /\ pc = "search_fetch"
  /\ resps' = Append(resps, r)
  /\ LET generic == JStr(<<"Asset search failed with status", ToString(r.status)>>)
         e == Outcome(r, searchMessage(r, generic), None)
         b == r.search
     IN Finish(IF e # NoError THEN Threw(e)
               ELSE [Returned EXCEPT !.search =
                       [preciseMatch |-> OrEmpty(b.precise_match),
                        inputFileMimeType |->
                          IF IsSome(b.input_file_mime_type)
                          THEN b.input_file_mime_type[1] ELSE "",
                        similarMatches |->
                          IF IsSome(b.similar_matches) THEN b.similar_matches[1]
                          ELSE <<>>,
                        orderId |-> OrEmpty(b.order_id)]])
  /\ UNCHANGED <<client, ctorError, env, call, norm, normSrc, proofHash,
                 form, reqs, callerBuf, reads>>

\* searchNft(nid)
SearchNft(nid) ==
  /\ pc = "idle"
  /\ call' = Call("searchNft", nid, NoFile, NoOpts)
  /\ IF nid = <<>>
     THEN /\ Finish(Threw(ValidationError(<<"nid is required for NFT search">>)))
          /\ UNCHANGED reqs
     ELSE /\ Send("nftSearch", "POST", Some(nid), "application/json", <<>>, <<>>)
          /\ pc' = "nft_fetch"
          /\ UNCHANGED result
  /\ UNCHANGED <<client, ctorError, env, norm, normSrc, proofHash, form,
                 resps, callerBuf, reads>>

NftRecord(r) ==
  [tokenId |-> r.token_id, contract |-> r.contract, network |-> r.network,
   owner |-> r.owner]

SearchNftResponse(r) ==
  /\ pc = "nft_fetch"
  /\ resps' = Append(resps, r)
  /\ LET generic == JStr(<<"NFT search failed with status", ToString(r.status)>>)
         e == Outcome(r, searchMessage(r, generic), Some(call.nid))
         recs == IF IsSome(r.nft.records) THEN r.nft.records[1] ELSE <<>>
     IN Finish(IF e # NoError THEN Threw(e)
               ELSE [Returned EXCEPT !.nft =
                       [records |-> [i \in 1..Len(recs) |-> NftRecord(recs[i])],
                        orderId |-> OrEmpty(r.nft.order_id)]])
  /\ UNCHANGED <<client, ctorError, env, call, norm, normSrc, proofHash,
                 form, reqs, callerBuf, reads>>

\* ----------------------------------------------------------- specification

\* A call starts only from an idle client, and the guard is stated before the
\* arguments are drawn.
Next ==
  \/ pc = "new" /\ \E o \in CaptureOptions : Construct(o)
  \/ pc = "idle" /\ \E f \in FileInputs, o \in RegisterOptions :
       \E buf \in BufFor(f), disk \in DiskFor(f) : Register(f, o, buf, disk)
  \/ RegisterBuild
  \/ pc = "reg_hashing" /\ \E now \in Clock : RegisterSign(now)
  \/ pc = "reg_fetch" /\ \E r \in AssetResponses : RegisterResponse(r)
  \/ pc = "idle" /\ \E nid \in Nids, o \in UpdateOptions : Update(nid, o)
  \/ pc = "upd_fetch" /\ \E r \in AssetResponses : UpdateResponse(r)
  \/ pc = "idle" /\ \E nid \in Nids, signal \in Signals : Get(nid, signal)
  \/ pc = "get_fetch" /\ \E r \in AssetResponses : GetResponse(r)
  \/ pc = "idle" /\ \E nid \in Nids : GetHistory(nid)
  \/ pc = "hist_fetch" /\ \E r \in HistoryResponses : GetHistoryResponse(r)
  \/ pc = "idle" /\ \E nid \in Nids : GetAssetTree(nid)
  \/ pc = "tree_history" /\ \E r \in HistoryResponses : TreeHistoryResponse(r)
  \/ pc = "tree_merge" /\ \E r \in MergeResponses : TreeMergeResponse(r)
  \/ pc = "idle" /\ \E o \in AssetSearchOptions :
       \E buf \in BufFor(SearchFile(o)), disk \in DiskFor(SearchFile(o)) :
         SearchAsset(o, buf, disk)
  \/ SearchAssetBuild
  \/ pc = "search_fetch" /\ \E r \in SearchResponses : SearchAssetResponse(r)
  \/ pc = "idle" /\ \E nid \in Nids : SearchNft(nid)
  \/ pc = "nft_fetch" /\ \E r \in NftResponses : SearchNftResponse(r)
  \/ CallerMutate
  \/ SignalAbort
  \/ Return

Spec == Init /\ [][Next]_vars

\* ------------------------------------------------- getMimeType on its own

\* Filenames as their dot-delimited parts: '' (no part), names without a dot
\* (one part) and names with one dot (two parts, either of them may be '').
MimeParts == {"", "a", "png", "PNG", "jpg", "jpeg", "txt", "xyz", "pdf", "constructor"}
Filenames == {<<>>} \cup {<<x>> : x \in MimeParts \ {""}}
             \cup {<<x, y>> : x \in MimeParts, y \in MimeParts}

\* Before getMimeType(filename): the filename is the one of call.options
MimeInit ==
  /\ client = None
  /\ ctorError = NoError
  /\ env = "node"
  /\ pc = "mime"
  /\ \E f \in Filenames :
       call = [NoCall EXCEPT !.op = "getMimeType", !.options.filename = Some(f)]
  /\ norm = NoNorm
  /\ normSrc = <<>>
  /\ proofHash = None
  /\ form = <<>>
  /\ reqs = <<>>
  /\ resps = <<>>
  /\ result = NoResult
  /\ callerBuf = <<>>
  /\ reads = 0

\* getMimeType(filename): what it returns is kept in norm.mimeType
MimeResolve ==
  /\ pc = "mime"
  /\ pc' = "mime_done"
  /\ norm' = [NoNorm EXCEPT !.filename = call.options.filename[1],
                            !.mimeType = getMimeType(call.options.filename[1])]
  /\ UNCHANGED <<client, ctorError, env, call, normSrc, proofHash, form,
                 reqs, resps, result, callerBuf, reads>>

MimeNext == MimeResolve

SpecMime == MimeInit /\ [][MimeNext]_vars

\* ------------------------------------------------------------------ claims

Last(seq) == seq[Len(seq)]
Sent(ep) == \E i \in 1..Len(reqs) : reqs[i].ep = ep
\* The i-th fetch of the call resolved with a 2xx status and a JSON body
Succeeded(i) ==
  Len(resps) >= i /\ resps[i].net /\ ok(resps[i].status) /\ resps[i].json
ThrewValidation == result.state = "err" /\ result.err.name = "ValidationError"

\* The {assetTreeCid, timestampCreated} list of a history response's commits
Projected(commits) ==
  [i \in 1..Len(commits) |->
     [assetTreeCid |-> commits[i].assetTreeCid,
      timestampCreated |-> commits[i].timestampCreated]]

\* C1: a merge request is only ever the second request of a getAssetTree
\* call, issued after the history request was answered with success, and its
\* body is the projection of that answer's commits, same length, same order.
C1_MergeAfterHistory ==
  \A i \in 1..Len(reqs) :
    reqs[i].ep = "merge" =>
      /\ call.op = "getAssetTree"
      /\ i = 2
      /\ reqs[1].ep = "history"
      /\ Succeeded(1)
      /\ reqs[i].json = Projected(resps[1].commits)

C1_Witness ==
  /\ pc = "tree_merge"
  /\ Len(reqs) = 2
  /\ Len(reqs[2].json) = 2
  /\ reqs[2].json[1] # reqs[2].json[2]

\* C2: a getAssetTree call whose history answer holds zero commits has
\* failed with the NO_COMMITS error and has sent nothing to the merge endpoint.
C2_NoCommitsNoMerge ==
  (call.op = "getAssetTree" /\ Succeeded(1) /\ resps[1].commits = <<>>) =>
     /\ pc = "done"
     /\ result = Threw(CaptureError(<<"No commits found for asset">>,
                                    "NO_COMMITS", Some(404)))
     /\ ~Sent("merge")

C2_Witness ==
  /\ call.op = "getAssetTree"
  /\ Succeeded(1)
  /\ resps[1].commits = <<>>
  /\ pc = "done"

\* C3: a register or update call whose headline is longer than 25 has failed
\* with ValidationError without a request, and the headline error is never
\* the result of a call whose headline is absent or 25 or shorter.
C3_HeadlineLimit ==
  LET h == call.options.headline
  IN call.op \in {"register", "update"} =>
       /\ (IsSome(h) /\ Len(h[1]) > 25) =>
            (pc = "done" /\ ThrewValidation /\ reqs = <<>>)
       /\ result.err = HeadlineError => (IsSome(h) /\ Len(h[1]) > 25)

C3_Witness ==
  /\ call.op = "register"
  /\ IsSome(call.options.headline)
  /\ Len(call.options.headline[1]) = HeadlineLimit + 1
  /\ result = Threw(HeadlineError)
  /\ reqs = <<>>

\* The file given to register holds no byte.  A path's file is known to be
\* empty once it has been read.
EmptyFile ==
  CASE call.file.kind \in {"File", "Blob"} -> call.file.bytes = <<>>
    [] call.file.kind \in BufferKinds -> callerBuf = <<>>
    [] call.file.kind = "path" -> norm.ok /\ normSrc = <<>>
    [] OTHER -> FALSE

\* C4: a register call on a file of zero bytes never gets past the empty
\* check: it sends no request, and when it has ended it has thrown a
\* ValidationError, whatever the input variant and the options.
C4_EmptyFileRejected ==
  (call.op = "register" /\ EmptyFile) =>
     /\ pc \in {"reg_normalized", "done"}
     /\ reqs = <<>>
     /\ pc = "done" => ThrewValidation

C4_Witness ==
  /\ call.op = "register"
  /\ call.file.kind = "Uint8Array"
  /\ EmptyFile
  /\ result = Threw(ValidationError(<<"file cannot be empty">>))

\* The error kind the status of a non-2xx response stands for
KindOf(status) ==
  CASE status = 401 -> "AuthenticationError"
    [] status = 403 -> "PermissionError"
    [] status = 404 -> "NotFoundError"
    [] OTHER -> "NetworkError"

\* C5: a call that ended on a non-2xx response other than 400 threw the
\* error kind of that status, and a NetworkError carries the status.
C5_StatusMapping ==
  (pc = "done" /\ resps # <<>> /\ Last(resps).net /\ ~ok(Last(resps).status)
   /\ Last(resps).status # 400) =>
     /\ result.state = "err"
     /\ result.err.name = KindOf(Last(resps).status)
     /\ Last(resps).status \notin {401, 403, 404} =>
          result.err.status = Some(Last(resps).status)

C5_Witness ==
  /\ call.op = "getAssetTree"
  /\ pc = "done"
  /\ Len(resps) = 2
  /\ resps[2].status = 503
  /\ result.err = NetworkError(<<"Failed to merge asset trees">>, Some(503))

\* The message the server returned in a non-2xx body, as the endpoint's
\* workflow would read it: detail or message on the asset endpoints, message
\* or error on the search endpoints, any of the three on the others.
ServerMessage(ep, r) ==
  IF ~r.json THEN JAbsent
  ELSE CASE ep \in {"assets", "asset"} -> JOr(r.err.detail, r.err.message)
         [] ep \in {"assetSearch", "nftSearch"} -> JOr(r.err.message, r.err.error)
         [] OTHER -> JOr(r.err.detail, JOr(r.err.message, r.err.error))

IndicatesFunds(m) == m.t = "string" /\ IncludesInsufficient(m.text)

\* C6: a call that ended on a 400 response threw InsufficientFundsError when
\* the message the server returned contains "insufficient", and
\* ValidationError on every other 400 response, whatever the workflow.
C6_FundsOrValidation ==
  (pc = "done" /\ resps # <<>> /\ Last(resps).net /\ Last(resps).status = 400) =>
     /\ result.state = "err"
     /\ result.err.name =
          IF IndicatesFunds(ServerMessage(Last(reqs).ep, Last(resps)))
          THEN "InsufficientFundsError" ELSE "ValidationError"

\* C7: the bytes normalizeFile returned stay equal to the source as it was
\* when normalizeFile read it, whatever the caller writes to its own memory
\* afterwards.
C7_FreshCopy ==
  norm.ok => Deref(norm.data, callerBuf) = normSrc

\* A Blob, a Buffer or a Uint8Array: an input that carries no name
Anonymous(file) == file.kind \in {"Blob"} \cup BufferKinds

FilenameRequired ==
  {ValidationError(<<"filename is required for Blob input">>),
   ValidationError(<<"filename is required for binary input">>)}

Rejected == pc = "done" /\ ThrewValidation /\ reqs = <<>>

Normalizing ==
  LET o == call.options
  IN \/ call.op = "register" /\ ~HeadlineTooLong(o)
     \/ /\ call.op = "searchAsset"
        /\ FileGiven(o.file)
        /\ ~BadThreshold(o) /\ ~BadSampleCount(o)
        /\ ~TruthyStr(o.fileUrl) /\ ~TruthyStr(o.nid)

PathNeedsNode ==
  ValidationError(<<"File path input is only supported in Node.js environment">>)

\* C9: normalizeFile on a path outside Node.js fails with the ValidationError
\* "File path input is only supported in Node.js environment": the call has
\* thrown it, has not read the file system and has sent nothing.
C9_PathNeedsNode ==
  (Normalizing /\ call.file.kind = "path" /\ env # "node") =>
     /\ pc = "done"
     /\ result = Threw(PathNeedsNode)
     /\ reads = 0
     /\ reqs = <<>>

C9_Witness ==
  /\ env = "browser"
  /\ call.op = "register"
  /\ call.file.kind = "path"
  /\ result = Threw(PathNeedsNode)
  /\ reads = 0

\* C9 as stated: normalizeFile on a path outside Node.js fails with an error
\* of the kind EnvironmentUnsupported, which is not ValidationError, and
\* reads no file.
C9_Original ==
  (Normalizing /\ call.file.kind = "path" /\ env # "node") =>
     /\ result.state = "err"
     /\ result.err.name = "EnvironmentUnsupported"
     /\ reads = 0

\* threshold is given and is not a number of [0,1]
ThresholdOutside(o) ==
  IsSome(o.threshold)
  /\ ~(~o.threshold[1].nan /\ o.threshold[1].x2 >= 0 /\ o.threshold[1].x2 <= 2)

\* sampleCount is given and is not a positive integer
SampleCountInvalid(o) ==
  IsSome(o.sampleCount)
  /\ ~(~o.sampleCount[1].nan /\ o.sampleCount[1].x2 >= 2
       /\ o.sampleCount[1].x2 % 2 = 0)

SearchValidationErrors ==
  {ValidationError(<<"Must provide fileUrl, file, or nid for asset search">>),
   ValidationError(<<"threshold must be between 0 and 1">>),
   ValidationError(<<"sampleCount must be a positive integer">>)}

\* C10: a searchAsset call with no source, with a threshold outside [0,1] or
\* with a sampleCount that is not a positive integer has failed with
\* ValidationError and sent nothing; any other searchAsset call raises none
\* of the three validation errors.
C10_SearchValidation ==
  LET o == call.options
      invalid == NoSource(o) \/ ThresholdOutside(o) \/ SampleCountInvalid(o)
  IN call.op = "searchAsset" =>
       /\ invalid => Rejected
       /\ ~invalid => result.err \notin SearchValidationErrors

\* The source fields of an asset-search form, in append order
SourceParts(f) == SelectSeq(f, LAMBDA p : p.name \in {"url", "nid", "file"})

\* C11: the body of every asset-search request carries exactly one source
\* field: 'url' with the fileUrl when a fileUrl is given, else 'nid' with the
\* nid when a nid is given, else 'file'; and a searchAsset call that has a
\* fileUrl or a nid never normalizes or reads its file.
C11_SourcePriority ==
  LET o == call.options
  IN call.op = "searchAsset" =>
       /\ \A i \in 1..Len(reqs) :
            LET src == SourceParts(reqs[i].form)
            IN /\ Len(src) = 1
               /\ IF TruthyStr(o.fileUrl)
                  THEN src[1] = TextPart("url", o.fileUrl[1])
                  ELSE IF TruthyStr(o.nid)
                  THEN src[1] = TextPart("nid", o.nid[1])
                  ELSE src[1].name = "file" /\ src[1].kind = "file"
       /\ (TruthyStr(o.fileUrl) \/ TruthyStr(o.nid)) =>
            (norm = NoNorm /\ reads = 0)

C11_Witness ==
  /\ call.op = "searchAsset"
  /\ TruthyStr(call.options.fileUrl)
  /\ TruthyStr(call.options.nid)
  /\ call.file.kind = "path"
  /\ Len(reqs) = 1
  /\ SourceParts(reqs[1].form) = <<TextPart("url", call.options.fileUrl[1])>>
  /\ reads = 0

Endpoints == {"assets", "asset", "history", "merge", "assetSearch", "nftSearch"}

\* C12: every request of every workflow carries the Authorization header
\* 'token ' followed by exactly the token the client was constructed with.
C12_AuthorizationHeader ==
  \A i \in 1..Len(reqs) :
    /\ reqs[i].ep \in Endpoints
    /\ reqs[i].headers.Authorization = <<"token">> \o client[1].token

C12_Witness ==
  /\ Len(reqs) = 2
  /\ reqs[2].ep = "merge"
  /\ client = Some([token |-> <<"tokB">>, testnet |-> TRUE,
                    baseUrl |-> <<"https://custom.example/api">>])
  /\ reqs[2].headers.Authorization = <<"token", "tokB">>

\* The strings a form part carries as its value and its filename
FieldStrings(p) == {p.text, p.filename}

SignatureFields == {"proofHash", "provider", "signature", "publicKey", "integritySha"}

\* C13: in the body of every request no field is named 'token', no field's
\* string is the client's token or the private key of the call, the entries
\* of a 'signature' field have the five fields of a signature and no other,
\* and the nid a request carries is not the token.
C13_NoSecretInBody ==
  \A i \in 1..Len(reqs) :
    /\ \A j \in 1..Len(reqs[i].form) :
         LET p == reqs[i].form[j]
         IN /\ p.name # "token"
            /\ client[1].token \notin FieldStrings(p)
            /\ TruthyStr(call.options.privateKey) =>
                 call.options.privateKey[1] \notin FieldStrings(p)
            /\ \A k \in 1..Len(p.sigs) : DOMAIN p.sigs[k] = SignatureFields
    /\ IsSome(reqs[i].nid) => reqs[i].nid[1] # client[1].token

C13_Witness ==
  /\ Len(reqs) = 1
  /\ reqs[1].ep = "assets"
  /\ call.options.privateKey = Some(<<"keyA">>)
  /\ \E j \in 1..Len(reqs[1].form) : reqs[1].form[j].name = "signature"

TokenRequired == ValidationError(<<"token is required">>)

\* C14: new Capture(options) with a missing or an empty token throws the
\* ValidationError 'token is required' and leaves no client; with a
\* non-empty token it throws nothing and yields a client holding that token.
C14_TokenRequired ==
  [][\A o \in CaptureOptions :
       Construct(o) =>
         IF ~TruthyStr(o.token)
         THEN ctorError' = TokenRequired /\ client' = None /\ pc' = "new"
         ELSE /\ ctorError' = NoError
              /\ client' # None
              /\ client'[1].token = o.token[1]
              /\ pc' = "idle"]_vars

C14_Witness ==
  /\ pc = "new"
  /\ ctorError = TokenRequired
  /\ client = None

PartsNamed(f, n) == SelectSeq(f, LAMBDA p : p.name = n)

\* C15: a register call without a private key never hashes or signs, and its
\* request has neither 'signed_metadata' nor 'signature'; the request of a
\* call with a key has one of each, 'signature' lists exactly one signature,
\* and that signature's proofHash is the proof's proof_hash, the SHA-256 of
\* the bytes uploaded as asset_file, which are the source's bytes whenever
\* normalizeFile copied them.
C15_SigningOptional ==
  call.op = "register" =>
    IF ~TruthyStr(call.options.privateKey)
    THEN /\ pc # "reg_hashing"
         /\ proofHash = None
         /\ \A i \in 1..Len(reqs) :
              /\ PartsNamed(reqs[i].form, "signed_metadata") = <<>>
              /\ PartsNamed(reqs[i].form, "signature") = <<>>
    ELSE \A i \in 1..Len(reqs) :
           LET file == PartsNamed(reqs[i].form, "asset_file")
               meta == PartsNamed(reqs[i].form, "signed_metadata")
               sig == PartsNamed(reqs[i].form, "signature")
           IN /\ Len(file) = 1 /\ Len(meta) = 1 /\ Len(sig) = 1
              /\ Len(sig[1].sigs) = 1
              /\ sig[1].sigs[1].proofHash = meta[1].proof.proof_hash
              /\ meta[1].proof.proof_hash = sha256(file[1].bytes)
              /\ meta[1].proof.asset_mime_type = file[1].type
              /\ ~norm.data.alias => meta[1].proof.proof_hash = sha256(normSrc)

C15_Witness ==
  /\ call.op = "register"
  /\ call.options.privateKey = Some(<<"keyA">>)
  /\ call.file.kind = "File"
  /\ pc = "reg_fetch"
  /\ Len(reqs) = 1
  /\ Len(PartsNamed(reqs[1].form, "signature")) = 1
  /\ PartsNamed(reqs[1].form, "signed_metadata")[1].proof.proof_hash = sha256(<<1>>)

\* The private key in the options the client was constructed with, None when
\* they had none.  Every token of CaptureOptions belongs to one options
\* object, so the client's token tells which one the constructor was given.
ClientLevelKey ==
  LET given == {o \in CaptureOptions :
                  TruthyStr(o.token) /\ o.token[1] = client[1].token}
  IN (CHOOSE o \in given : TRUE).privateKey

\* C16: the request of a register call is signed with the private key of the
\* call when the call has one, else with the private key the client was
\* constructed with when it has one.
C16_ClientLevelKey ==
  LET key == IF TruthyStr(call.options.privateKey)
             THEN call.options.privateKey ELSE ClientLevelKey
  IN (call.op = "register" /\ TruthyStr(key)) =>
       \A i \in 1..Len(reqs) :
         LET sig == PartsNamed(reqs[i].form, "signature")
         IN /\ Len(sig) = 1
            /\ Len(sig[1].sigs) = 1
            /\ sig[1].sigs[1].publicKey = [addressOf |-> key[1]]

\* The proofs and keys signIntegrityProof is compared on
Proofs ==
  {createIntegrityProof(sha256(b), m, t) :
     b \in Bytes, m \in {"image/png", "text/plain"}, t \in Clock}
Keys == {<<"keyA">>, <<"keyB">>}

\* C17: in every signed register request the signature's integritySha is the
\* SHA-256 of the serialization of the proof sent as 'signed_metadata' and is
\* not the SHA-256 of the asset bytes; signIntegrityProof gives another proof
\* that integritySha only if it is the same proof, whatever the key, and
\* gives the call's key the same publicKey, whatever the proof.
C17_IntegritySha ==
  \A i \in 1..Len(reqs) :
    LET file == PartsNamed(reqs[i].form, "asset_file")
        meta == PartsNamed(reqs[i].form, "signed_metadata")
        sig == PartsNamed(reqs[i].form, "signature")
        key == call.options.privateKey[1]
    IN sig # <<>> =>
         /\ meta # <<>> /\ file # <<>>
         /\ sig[1].sigs[1].integritySha = sha256(EncodeProofJson(meta[1].proof))
         /\ sig[1].sigs[1].integritySha # sha256(file[1].bytes)
         /\ sig[1].sigs[1].signature.message = sig[1].sigs[1].integritySha
         /\ sig[1].sigs[1].publicKey = [addressOf |-> key]
         /\ \A p \in Proofs, k \in Keys :
              /\ (signIntegrityProof(p, k).integritySha = sig[1].sigs[1].integritySha)
                   <=> (p = meta[1].proof)
              /\ signIntegrityProof(p, key).publicKey = sig[1].sigs[1].publicKey

C17_Witness ==
  /\ pc = "reg_fetch"
  /\ Len(reqs) = 1
  /\ Len(PartsNamed(reqs[1].form, "signature")) = 1
  /\ PartsNamed(reqs[1].form, "signature")[1].sigs[1].integritySha =
       sha256(EncodeProofJson(createIntegrityProof(sha256(<<0>>), "image/png", 1001)))

NidWorkflows == {"update", "get", "getHistory", "getAssetTree", "searchNft"}

\* C18: an update, get, getHistory, getAssetTree or searchNft call with the
\* empty nid has failed with ValidationError and has sent no request, to the
\* history and merge endpoints no more than to any other.
C18_EmptyNid ==
  (call.op \in NidWorkflows /\ call.nid = <<>>) =>
     /\ pc = "done"
     /\ ThrewValidation
     /\ reqs = <<>>
     /\ resps = <<>>

C18_Witness ==
  /\ call.op = "getAssetTree"
  /\ call.nid = <<>>
  /\ result = Threw(ValidationError(<<"nid is required">>))
  /\ ~Sent("history") /\ ~Sent("merge")

\* C19: a call whose cancellation signal the caller fired while the call's
\* request was in flight ends by throwing a cancellation error (AbortError).
C19_Cancellation ==
  (pc = "done" /\ call.signal = Some("aborted")) =>
     /\ result.state = "err"
     /\ result.err.name = "AbortError"

RequestsTo(ep) == Len(SelectSeq(reqs, LAMBDA q : q.ep = ep))

\* C20: within one call no endpoint is requested twice: getAssetTree sends at
\* most one history and one merge request, every other workflow at most one
\* request; a request is sent only once every earlier one has been answered,
\* and a request that failed is the last of its call, which has then thrown.
C20_NoRetry ==
  /\ \A ep \in Endpoints : RequestsTo(ep) <= 1
  /\ Len(reqs) <= (IF call.op = "getAssetTree" THEN 2 ELSE 1)
  /\ Len(resps) <= Len(reqs) /\ Len(reqs) <= Len(resps) + 1
  /\ \A i \in 1..Len(resps) :
       ~Succeeded(i) =>
         /\ i = Len(reqs)
         /\ pc = "done"
         /\ result.state = "err"

C20_Witness ==
  /\ call.op = "getAssetTree"
  /\ Len(reqs) = 2 /\ Len(resps) = 2
  /\ resps[2].net /\ resps[2].status = 503
  /\ pc = "done"
  /\ result.state = "err"

\* C21: the error a call has thrown carries a code and a message, whatever
\* made the call fail: a validation, a non-2xx response, a fetch that got no
\* response, or a 2xx body that is not JSON.
C21_ErrorsCarryCode ==
  (pc = "done" /\ result.state = "err") =>
     /\ result.err.code # ""
     /\ result.err.message # <<>>

C23_AssetMapping ==
  (call.op \in {"register", "update", "get"} /\ pc = "done"
   /\ result.state = "ok") =>
     LET r == Last(resps).asset
     IN /\ Len(resps) = 1 /\ Succeeded(1)
        /\ result.asset.nid = r.id
        /\ result.asset.filename = r.asset_file_name
        /\ result.asset.mimeType = r.asset_file_mime_type
        /\ result.asset.caption = r.caption
        /\ result.asset.headline = r.headline

C23_Witness ==
  /\ call.op = "update"
  /\ call.nid = <<"nidA">>
  /\ pc = "done"
  /\ result.state = "ok"
  /\ result.asset = Asset(<<"nidT">>, <<"b", "txt">>, "text/plain",
                          Some(<<"cap">>), Some(<<"h">>))

\* C24: the body of an update request has the field caption, headline,
\* commit_message, nit_commit_custom exactly when options has caption,
\* headline, commitMessage, customMetadata, the empty string being a value
\* like any other.
C24_UpdateFields ==
  LET o == call.options
  IN call.op = "update" =>
       \A i \in 1..Len(reqs) :
         /\ (PartsNamed(reqs[i].form, "caption") # <<>>) <=> IsSome(o.caption)
         /\ (PartsNamed(reqs[i].form, "headline") # <<>>) <=> IsSome(o.headline)
         /\ (PartsNamed(reqs[i].form, "commit_message") # <<>>)
              <=> IsSome(o.commitMessage)
         /\ (PartsNamed(reqs[i].form, "nit_commit_custom") # <<>>)
              <=> IsSome(o.customMetadata)

\* The entry the table has for an extension, None when it has none
TableEntry(ext) ==
  IF ext \in {"constructor", "__proto__"} THEN None ELSE MIME_TYPES(ext)

\* C25: getMimeType returns, for every filename, the table's entry for the
\* lower-cased part after the last dot, and application/octet-stream when
\* the table has no entry for it or the filename has no dot.
C25_MimeResolver ==
  pc = "mime_done" =>
    LET f == norm.filename
        entry == IF Len(f) >= 2 THEN TableEntry(ToLowerCase(f[Len(f)])) ELSE None
    IN norm.mimeType = IF IsSome(entry) THEN entry[1]
                       ELSE "application/octet-stream"

\* The nid a call was made with, None when it was made with none: the nid
\* argument, or the options.nid searchAsset sent as its source.
KnownNid ==
  IF call.op \in NidWorkflows THEN Some(call.nid)
  ELSE IF call.op = "searchAsset" /\ ~TruthyStr(call.options.fileUrl)
          /\ TruthyStr(call.options.nid)
  THEN call.options.nid ELSE None

\* C26: a call made with a nid that ended on a 404 response has thrown the
\* NotFoundError that carries that nid.
C26_NotFoundCarriesNid ==
  (pc = "done" /\ resps # <<>> /\ Last(resps).net /\ Last(resps).status = 404
   /\ IsSome(KnownNid)) =>
     result = Threw(NotFoundError(KnownNid))

\* C27: a getAssetTree call that returned has returned the mergedAssetTree
\* field of the merge response when the response has the field, and the
\* whole body of the response when it has not.
C27_MergedTreeUnwrapped ==
  (call.op = "getAssetTree" /\ pc = "done" /\ result.state = "ok") =>
     LET r == Last(resps)
     IN result.tree = IF IsSome(r.merged) THEN r.merged[1] ELSE r.tree

\* C28: in a register call with a private key on a Uint8Array or a Buffer,
\* the digest taken for the proof and the proof_hash of the request are the
\* SHA-256 of the very bytes of the 'asset_file' part, whatever the caller
\* wrote to the buffer before, between and after the steps of the call.
C28_HashOfUploadedBytes ==
  (call.op = "register" /\ call.file.kind \in BufferKinds
   /\ TruthyStr(call.options.privateKey)) =>
     /\ IsSome(proofHash) =>
          /\ PartsNamed(form, "asset_file") # <<>>
          /\ proofHash[1] = sha256(PartsNamed(form, "asset_file")[1].bytes)
     /\ \A i \in 1..Len(reqs) :
          PartsNamed(reqs[i].form, "signed_metadata")[1].proof.proof_hash
            = sha256(PartsNamed(reqs[i].form, "asset_file")[1].bytes)

C28_Witness ==
  /\ call.op = "register"
  /\ call.file.kind = "Uint8Array"
  /\ pc = "reg_fetch"
  /\ Len(reqs) = 1
  /\ PartsNamed(reqs[1].form, "signature") # <<>>
  /\ PartsNamed(reqs[1].form, "asset_file")[1].bytes # normSrc
  /\ PartsNamed(reqs[1].form, "asset_file")[1].bytes # callerBuf

InvalidKeyError == ForeignError("TypeError", <<"invalid private key">>)

\* C29: a register call has sent a request, one POST, only if the headline
\* passed, normalizeFile returned, the file was not empty and, with a private
\* key, the key was well-formed and the signature made; a call one of these
\* steps failed has sent none, the first step to fail being the one reported;
\* and a call with an over-long headline has read no file.
C29_PostAfterLocalSteps ==
  LET o == call.options
  IN call.op = "register" =>
       /\ reqs # <<>> =>
            /\ Len(reqs) = 1 /\ reqs[1].method = "POST" /\ reqs[1].ep = "assets"
            /\ ~HeadlineTooLong(o)
            /\ norm.ok
            /\ PartsNamed(reqs[1].form, "asset_file")[1].bytes # <<>>
            /\ TruthyStr(o.privateKey) =>
                 /\ o.privateKey[1] \in Keys
                 /\ PartsNamed(reqs[1].form, "signature") # <<>>
       /\ (IsSome(o.headline) /\ Len(o.headline[1]) > HeadlineLimit) =>
            /\ result = Threw(HeadlineError)
            /\ norm = NoNorm /\ reads = 0 /\ reqs = <<>>
       /\ (pc = "done" /\ resps = <<>>) =>
            /\ result.state = "err" /\ reqs = <<>>
            /\ result.err = InvalidKeyError =>
                 (norm.ok /\ form # <<>> /\ IsSome(proofHash))

C29_Witness ==
  /\ call.op = "register"
  /\ call.options.privateKey = Some(<<"bad">>)
  /\ pc = "done"
  /\ result = Threw(InvalidKeyError)
  /\ reqs = <<>>

\* C30: the error of a call that ended on a non-2xx response carries the
\* status of that response, and a ValidationError thrown with no response
\* behind it carries no status.
C30_StatusTellsServerFromLocal ==
  /\ (pc = "done" /\ resps # <<>> /\ Last(resps).net /\ ~ok(Last(resps).status)) =>
       /\ result.state = "err"
       /\ result.err.status = Some(Last(resps).status)
  /\ (pc = "done" /\ ThrewValidation /\ resps = <<>>) =>
       result.err.status = None

====
